---------------------------- MODULE Spec2Model ----------------------------
(***************************************************************************)
(* Model of the influxdb-rust client: the WriteQuery / ReadQuery builders  *)
(* (src/src/query/write_query.rs, src/src/query/mod.rs) and the client     *)
(* dispatcher InfluxDbClient::query / ping (src/src/client/mod.rs).        *)
(*                                                                         *)
(* Texts (Rust String / &str / response bytes) are sequences of one-       *)
(* character strings, so that concatenation, substring search and decimal  *)
(* formatting are computed character by character as the code does.        *)
(***************************************************************************)
EXTENDS Integers, Sequences, FiniteSets, TLC

VARIABLES
    builder,    \* the query value owned by the call site (WriteQuery / ReadQuery)
    built,      \* the Result of the last build() on `builder`
    client,     \* InfluxDbClient { url, database, auth }
    disp,       \* one record per dispatch: the future returned by client.query(q)
    pingst,     \* the future returned by client.ping()
    lastop,     \* the last call on `builder`, when an optional add_field or get_precision
    conv        \* a Timestamp and the DateTime<Utc> it was converted to or from

vars == <<builder, built, client, disp, pingst, lastop, conv>>

---------------------------------------------------------------------------
(* Bounds of the model *)

\* longest tag list a builder of the model receives
MaxTags == 2
\* longest field list a builder of the model receives
MaxFields == 2
\* number of dispatches issued through the one shared client
NumDispatch == 2

---------------------------------------------------------------------------
(* Texts *)

Digits == <<"0", "1", "2", "3", "4", "5", "6", "7", "8", "9">>

T_empty == <<>>
T_weather == <<"w", "e", "a", "t", "h", "e", "r">>
T_SELECT == <<"S", "E", "L", "E", "C", "T">>
T_SHOW == <<"S", "H", "O", "W">>
T_select == <<"s", "e", "l", "e", "c", "t">>
T_SELEC == <<"S", "E", "L", "E", "C">>
T_DROP == <<"D", "R", "O", "P">>
T_xSHOWx == <<"x", "S", "H", "O", "W", "x">>
T_t == <<"t">>
T_w == <<"w">>
T_summer == <<"s", "u", "m">>
T_db == <<"d", "b">>
T_u == <<"u">>
T_p == <<"p">>
T_q == <<"q">>
T_precision == <<"p", "r", "e", "c", "i", "s", "i", "o", "n">>
T_test == <<"t", "e", "s", "t">>
T_admin == <<"a", "d", "m">>
T_secret == <<"p", "w">>

\* str::contains: `sub` occurs in `s` as a contiguous, case-sensitive substring
Contains(s, sub) ==
    \E i \in 0..(Len(s) - Len(sub)) : SubSeq(s, i + 1, i + Len(sub)) = sub

\* [String]::join(sep)
RECURSIVE Join(_, _)
Join(parts, sep) ==
    IF parts = <<>> THEN <<>>
    ELSE IF Len(parts) = 1 THEN parts[1]
    ELSE parts[1] \o sep \o Join(Tail(parts), sep)

\* Display of an unsigned integer: its decimal digits, no sign, no padding
RECURSIVE FmtUnsigned(_)
FmtUnsigned(n) ==
    IF n < 10 THEN <<Digits[n + 1]>>
    ELSE FmtUnsigned(n \div 10) \o <<Digits[(n % 10) + 1]>>

\* Display of a signed integer
FmtSigned(n) ==
    IF n < 0 THEN <<"-">> \o FmtUnsigned(0 - n) ELSE FmtUnsigned(n)

---------------------------------------------------------------------------
(* Timestamp (src/src/query/mod.rs) *)

Variants ==
    {"Nanoseconds", "Microseconds", "Milliseconds", "Seconds", "Minutes", "Hours"}

Now == [variant |-> "Now", n |-> 0]

Ts(v, n) == [variant |-> v, n |-> n]

\* impl fmt::Display for Timestamp
Timestamp_fmt(ts) ==
    IF ts.variant = "Now" THEN <<>> ELSE FmtUnsigned(ts.n)

---------------------------------------------------------------------------
(* Type: the scalar wire values (src/src/query/write_query.rs) *)

\* Floats of the model are the non-negative values n + d/10, d a single digit.
Boolean(b) == [t |-> "Boolean", b |-> b, n |-> 0, d |-> 0, s |-> <<>>]
Float(n, d) == [t |-> "Float", b |-> FALSE, n |-> n, d |-> d, s |-> <<>>]
SignedInteger(n) == [t |-> "SignedInteger", b |-> FALSE, n |-> n, d |-> 0, s |-> <<>>]
UnsignedInteger(n) == [t |-> "UnsignedInteger", b |-> FALSE, n |-> n, d |-> 0, s |-> <<>>]
Text(s) == [t |-> "Text", b |-> FALSE, n |-> 0, d |-> 0, s |-> s]

\* impl Display for Type
Type_fmt(v) ==
    CASE v.t = "Boolean" ->
            IF v.b THEN <<"t", "r", "u", "e">> ELSE <<"f", "a", "l", "s", "e">>
      [] v.t = "Float" ->
            IF v.d = 0 THEN FmtUnsigned(v.n)
            ELSE FmtUnsigned(v.n) \o <<".">> \o FmtUnsigned(v.d)
      [] v.t = "SignedInteger" -> FmtSigned(v.n)
      [] v.t = "UnsignedInteger" -> FmtUnsigned(v.n)
      [] v.t = "Text" -> <<"\"">> \o v.s \o <<"\"">>

\* Option<T>: None, or Some(v)
None == [some |-> FALSE, v |-> Boolean(FALSE)]
Some(v) == [some |-> TRUE, v |-> v]

---------------------------------------------------------------------------
(* Queries *)

NoTs == Now

\* WriteQuery::new
WriteQuery_new(ts, m) ==
    [kind |-> "write", raw |-> <<>>, measurement |-> m,
     tags |-> <<>>, fields |-> <<>>, timestamp |-> ts]

\* ReadQuery::new, through Query::raw_read_query
raw_read_query(text) ==
    [kind |-> "read", raw |-> text, measurement |-> <<>>,
     tags |-> <<>>, fields |-> <<>>, timestamp |-> NoTs]

\* (mutant) an entry under a key already present replaces the first such entry
add_to_fields_Replace(v, tag, fields) ==
    IF \E i \in 1..Len(fields) : fields[i][1] = tag
    THEN LET i == CHOOSE k \in 1..Len(fields) : fields[k][1] = tag
         IN  [fields EXCEPT ![i] = <<tag, Type_fmt(v)>>]
    ELSE Append(fields, <<tag, Type_fmt(v)>>)

\* impl<T: Into<Type>> WriteField for T :: add_to_fields
add_to_fields(v, tag, fields) == Append(fields, <<tag, Type_fmt(v)>>)

\* (mutant) an absent value is written as an entry with an empty value
add_to_fields_opt_PushEmpty(o, tag, fields) ==
    IF o.some THEN add_to_fields(o.v, tag, fields) ELSE Append(fields, <<tag, <<>>>>)

\* impl<T: Into<Type>> WriteField for Option<T> :: add_to_fields
add_to_fields_opt(o, tag, fields) ==
    IF o.some THEN add_to_fields(o.v, tag, fields) ELSE fields

\* WriteQuery::add_field with a plain value
add_field(q, tag, v) ==
    [q EXCEPT !.fields = add_to_fields(v, tag, q.fields)]

\* WriteQuery::add_field with an optional value
add_field_opt(q, tag, o) ==
    [q EXCEPT !.fields = add_to_fields_opt(o, tag, q.fields)]

\* WriteQuery::add_tag
add_tag(q, tag, v) ==
    [q EXCEPT !.tags = Append(q.tags, <<tag, Type_fmt(v)>>)]

\* (mutant) the microsecond token mistaken for the millisecond one
get_precision_MicroAsMilli(q) ==
    CASE q.timestamp.variant = "Now" -> <<>>
      [] q.timestamp.variant = "Nanoseconds" -> <<"n", "s">>
      [] q.timestamp.variant = "Microseconds" -> <<"m", "s">>
      [] q.timestamp.variant = "Milliseconds" -> <<"m", "s">>
      [] q.timestamp.variant = "Seconds" -> <<"s">>
      [] q.timestamp.variant = "Minutes" -> <<"m">>
      [] q.timestamp.variant = "Hours" -> <<"h">>

\* WriteQuery::get_precision
get_precision(q) ==
    CASE q.timestamp.variant = "Now" -> <<>>
      [] q.timestamp.variant = "Nanoseconds" -> <<"n", "s">>
      [] q.timestamp.variant = "Microseconds" -> <<"u">>
      [] q.timestamp.variant = "Milliseconds" -> <<"m", "s">>
      [] q.timestamp.variant = "Seconds" -> <<"s">>
      [] q.timestamp.variant = "Minutes" -> <<"m">>
      [] q.timestamp.variant = "Hours" -> <<"h">>

\* Result<ValidQuery, Error>
BuildOk(text) == [ok |-> TRUE, text |-> text, err |-> "none"]
BuildErr(e) == [ok |-> FALSE, text |-> <<>>, err |-> e]
NotBuilt == [ok |-> FALSE, text |-> <<>>, err |-> "not built"]

\* the closure |(tag, value)| format!("{tag}={value}") mapped over a list
FmtPairs(list) == [i \in 1..Len(list) |-> list[i][1] \o <<"=">> \o list[i][2]]

\* (mutant) the guard also lets a builder through that has tags but no fields
FieldsEmpty_TagsCount(q) == q.fields = <<>> /\ q.tags = <<>>

\* the empty-fields guard of WriteQuery::build
FieldsEmpty(q) == q.fields = <<>>

\* (mutant) the "," is inserted whether or not there are tags
TagSegment_AlwaysComma(q) == <<",">> \o Join(FmtPairs(q.tags), <<",">>)

\* the tag segment of WriteQuery::build: the joined tags, "," inserted at 0
\* when the joined text is not empty
TagSegment(q) ==
    LET tags == Join(FmtPairs(q.tags), <<",">>)
    IN  IF tags # <<>> THEN <<",">> \o tags ELSE tags

\* the field segment of WriteQuery::build
FieldSegment(q) == Join(FmtPairs(q.fields), <<",">>)

\* the `time` argument of the format! in WriteQuery::build
TimeSegment(q) ==
    IF q.timestamp.variant = "Now" THEN <<>>
    ELSE <<" ">> \o Timestamp_fmt(q.timestamp)

\* impl Query for WriteQuery :: build
WriteQuery_build(q) ==
    IF FieldsEmpty(q) THEN BuildErr("InvalidQueryError")
    ELSE BuildOk(q.measurement \o TagSegment(q) \o <<" ">>
                 \o FieldSegment(q) \o TimeSegment(q))

\* (mutant) a read query with an empty text is refused
ReadQuery_build_RejectEmpty(q) ==
    IF q.raw = <<>> THEN BuildErr("InvalidQueryError") ELSE BuildOk(q.raw)

\* impl Query for ReadQuery :: build
ReadQuery_build(q) == BuildOk(q.raw)

\* Query::build, dispatched on the implementing type
build(q) == IF q.kind = "read" THEN ReadQuery_build(q) ELSE WriteQuery_build(q)

---------------------------------------------------------------------------
(* Inputs of the builder operations *)

Measurements == {T_weather}
Timestamps ==
    {Now, Ts("Hours", 0), Ts("Minutes", 11), Ts("Seconds", 11), Ts("Milliseconds", 11),
     Ts("Microseconds", 11), Ts("Nanoseconds", 120)}
TagNames == {T_t, T_empty}
TagValues == {Text(T_summer), Boolean(TRUE)}
FieldNames == {T_t, T_w}
FieldValues == {UnsignedInteger(82), Float(3, 7)}
OptValues == {None, Some(SignedInteger(-5))}

---------------------------------------------------------------------------
(* The builder as a state machine: one action per builder operation *)

\* the last operation was neither an optional add_field nor get_precision
NoOp == [op |-> "none", tag |-> <<>>, o |-> None, token |-> <<>>]

\* no conversion between Timestamp and DateTime<Utc> is under way
NoConv ==
    [ts |-> Now, dt |-> [millis |-> 0, nanos |-> 0], given |-> [millis |-> 0, nanos |-> 0],
     src |-> "none"]

InitBuilder ==
    /\ \E ts \in Timestamps, m \in Measurements : builder = WriteQuery_new(ts, m)
    /\ built = NotBuilt
    /\ client = [url |-> <<>>, database |-> <<>>,
                 auth |-> [some |-> FALSE, username |-> <<>>, password |-> <<>>]]
    /\ disp = <<>>
    /\ pingst = [pc |-> "idle"]
    /\ lastop = NoOp
    /\ conv = NoConv

AddField(tag, v) ==
    /\ builder.kind = "write"
    /\ Len(builder.fields) < MaxFields
    /\ builder' = add_field(builder, tag, v)
    /\ built' = NotBuilt
    /\ lastop' = NoOp
    /\ UNCHANGED <<client, disp, pingst, conv>>

AddFieldOpt(tag, o) ==
    /\ builder.kind = "write"
    /\ Len(builder.fields) < MaxFields
    /\ builder' = add_field_opt(builder, tag, o)
    /\ built' = NotBuilt
    /\ lastop' = [op |-> "add_field", tag |-> tag, o |-> o, token |-> <<>>]
    /\ UNCHANGED <<client, disp, pingst, conv>>

AddTag(tag, v) ==
    /\ builder.kind = "write"
    /\ Len(builder.tags) < MaxTags
    /\ builder' = add_tag(builder, tag, v)
    /\ built' = NotBuilt
    /\ lastop' = NoOp
    /\ UNCHANGED <<client, disp, pingst, conv>>

\* (mutant) build() takes the field list out of the builder
Build_Draining ==
    /\ built' = build(builder)
    /\ builder' = [builder EXCEPT !.fields = <<>>]
    /\ lastop' = NoOp
    /\ UNCHANGED <<client, disp, pingst, conv>>

\* caller: builder.build()
Build ==
    /\ built' = build(builder)
    /\ lastop' = NoOp
    /\ UNCHANGED <<builder, client, disp, pingst, conv>>

\* caller: builder.get_precision()
GetPrecision ==
    /\ builder.kind = "write"
    /\ lastop' = [op |-> "get_precision", tag |-> <<>>, o |-> None,
                token |-> get_precision(builder)]
    /\ UNCHANGED <<builder, built, client, disp, pingst, conv>>

NextBuilder ==
    \/ \E tag \in FieldNames, v \in FieldValues : AddField(tag, v)
    \/ \E tag \in FieldNames, o \in OptValues : AddFieldOpt(tag, o)
    \/ \E tag \in TagNames, v \in TagValues : AddTag(tag, v)
    \/ Build
    \/ GetPrecision

SpecBuilder == InitBuilder /\ [][NextBuilder]_vars

---------------------------------------------------------------------------
(* InfluxDbClient (src/src/client/mod.rs) *)

T_url == <<"h", "t", "t", "p", ":", "/", "/", "h">>
T_badurl == <<"h">>
T_slash_query == <<"/", "q", "u", "e", "r", "y">>
T_slash_write == <<"/", "w", "r", "i", "t", "e">>
T_slash_ping == <<"/", "p", "i", "n", "g">>

NoAuth == [some |-> FALSE, username |-> <<>>, password |-> <<>>]

\* InfluxDbClient::new
new(url, database) == [url |-> url, database |-> database, auth |-> NoAuth]

\* (mutant) the credential pair stored the wrong way round
with_auth_Swapped(c, username, password) ==
    [c EXCEPT !.auth = [some |-> TRUE, username |-> password, password |-> username]]

\* InfluxDbClient::with_auth
with_auth(c, username, password) ==
    [c EXCEPT !.auth = [some |-> TRUE, username |-> username, password |-> password]]

\* (mutant) u and p are sent whether or not authentication is configured
basic_parameters_AlwaysAuth(c) ==
    <<<<T_db, c.database>>, <<T_u, c.auth.username>>, <<T_p, c.auth.password>>>>

\* impl Into<Vec<(String, String)>> for &InfluxDbClient
basic_parameters(c) ==
    <<<<T_db, c.database>>>>
    \o (IF c.auth.some
        THEN <<<<T_u, c.auth.username>>, <<T_p, c.auth.password>>>>
        ELSE <<>>)

SchemeLetters ==
    {"a", "b", "c", "d", "e", "f", "g", "h", "i", "j", "k", "l", "m",
     "n", "o", "p", "q", "r", "s", "t", "u", "v", "w", "x", "y", "z"}

\* Url::parse_with_params: an absolute URL needs a scheme, letters up to a ':';
\* an input without one fails (relative URL without a base)
Url_parse_with_params(text, params) ==
    [ok |-> \E i \in 2..Len(text) :
                text[i] = ":" /\ \A j \in 1..(i - 1) : text[j] \in SchemeLetters,
     url |-> [base |-> text, pairs |-> params]]

\* url.query_pairs_mut().append_pair(key, value)
append_pair(url, key, value) ==
    [url EXCEPT !.pairs = Append(url.pairs, <<key, value>>)]

NoUrl == [base |-> <<>>, pairs |-> <<>>]
NoRequest == [method |-> "none", url |-> NoUrl, hasBody |-> FALSE, body |-> <<>>]

\* Future<Item = String, Error = InfluxDbError> outcomes
NoOutcome == [tag |-> "none", err |-> "none", text |-> <<>>]
Ok(text) == [tag |-> "Ok", err |-> "none", text |-> text]
Err(e) == [tag |-> "Err", err |-> e, text |-> <<>>]
T_influxdb_error ==
    <<"i", "n", "f", "l", "u", "x", "d", "b", " ", "e", "r", "r", "o", "r", ":", " ", "\"">>
\* InfluxDbError::DatabaseError { error: format!("influxdb error: \"{}\"", s) }
DatabaseError(s) ==
    [tag |-> "Err", err |-> "DatabaseError", text |-> T_influxdb_error \o s \o <<"\"">>]

\* the verb of a read query: GET when the text contains "SELECT" or "SHOW"
ReadMethod(text) ==
    IF Contains(text, T_SELECT) \/ Contains(text, T_SHOW) THEN "GET" ELSE "POST"

\* (mutant) the verb of a write query sniffed from its text like a read query's
WriteMethod_Sniffed(text) == ReadMethod(text)

\* the verb of a write query: Client::new().post(url)
WriteMethod(text) == "POST"

\* the error of a read query whose URL cannot be constructed
ReadUrlError == "UrlConstructionError"

\* the error of a write query whose URL cannot be constructed
WriteUrlError == "InvalidQueryError"

\* the outcome of the synchronous part of InfluxDbClient::query once build()
\* succeeded with `text`: the request to send, or the error returned at once
PrepareRequest(c, q, text) ==
    LET params == basic_parameters(c)
    IN  IF q.kind = "read"
        THEN LET u == Url_parse_with_params(c.url \o T_slash_query, params)
             IN  IF ~u.ok THEN [failed |-> TRUE, err |-> ReadUrlError, req |-> NoRequest]
                 ELSE [failed |-> FALSE, err |-> "none",
                       req |-> [method |-> ReadMethod(text),
                                url |-> append_pair(u.url, T_q, text),
                                hasBody |-> FALSE, body |-> <<>>]]
        ELSE LET u == Url_parse_with_params(c.url \o T_slash_write, params)
             IN  IF ~u.ok THEN [failed |-> TRUE, err |-> WriteUrlError, req |-> NoRequest]
                 ELSE [failed |-> FALSE, err |-> "none",
                       req |-> [method |-> WriteMethod(text),
                                url |-> append_pair(u.url, T_precision, get_precision(q)),
                                hasBody |-> TRUE, body |-> text]]

\* (mutant) the request is prepared from whatever build() returned, and the
\* build failure is looked at only afterwards
query_sync_BuildLate(c, q) ==
    LET b == build(q)
        p == PrepareRequest(c, q, b.text)
    IN  IF p.failed THEN p
        ELSE IF ~b.ok THEN [failed |-> TRUE, err |-> "InvalidQueryError", req |-> p.req]
        ELSE p

\* the synchronous part of InfluxDbClient::query: build, then the request
query_sync(c, q) ==
    LET b == build(q)
    IN  IF ~b.ok
        THEN [failed |-> TRUE, err |-> "InvalidQueryError", req |-> NoRequest]
        ELSE PrepareRequest(c, q, b.text)

\* (mutant) the two status arms exchanged
StatusError_Swapped(status) ==
    CASE status = 401 -> "AuthenticationError"
      [] status = 403 -> "AuthorizationError"
      [] OTHER -> "none"

\* the status match of InfluxDbClient::query
StatusError(status) ==
    CASE status = 401 -> "AuthorizationError"
      [] status = 403 -> "AuthenticationError"
      [] OTHER -> "none"

\* a byte that occurs in no UTF-8 text
InvalidByte == "<FF>"

\* std::str::from_utf8(&body).is_ok()
from_utf8_ok(bytes) == \A i \in 1..Len(bytes) : bytes[i] # InvalidByte

T_error_marker == <<"\"", "e", "r", "r", "o", "r", "\"">>

\* (mutant) the body is returned without the scan for the error marker
BodyOutcome_NoScan(bytes) ==
    IF from_utf8_ok(bytes) THEN Ok(bytes) ELSE Err("DeserializationError")

\* the last and_then of InfluxDbClient::query: the outcome for the bytes read
BodyOutcome(bytes) ==
    IF from_utf8_ok(bytes)
    THEN IF Contains(bytes, T_error_marker) THEN DatabaseError(bytes) ELSE Ok(bytes)
    ELSE Err("DeserializationError")

\* (mutant) a body stream that fails is reported like undecodable bytes
BodyReadError_Deserialization == "DeserializationError"

\* the map_err on body.concat2()
BodyReadError == "ProtocolError"

---------------------------------------------------------------------------
(* Responses of the server and of the transport *)

NoBody == [kind |-> "none", bytes |-> <<>>]
\* a body whose stream ends with the bytes given
Bytes(b) == [kind |-> "bytes", bytes |-> b]
\* a body whose stream fails before its end
BrokenBody == [kind |-> "ioerror", bytes |-> <<>>]

NoResponse == [status |-> 0, body |-> NoBody]

B_ok == <<"o", "k">>
B_error == <<"{", "\"", "e", "r", "r", "o", "r", "\"", "}">>
B_unquoted == <<"e", "r", "r", "o", "r">>
B_invalid == <<"\"", "e", "r", "r", "o", "r", "\"", InvalidByte>>

IdleDispatch ==
    [pc |-> "idle", q |-> raw_read_query(<<>>), req |-> NoRequest, nsent |-> 0,
     resp |-> NoResponse, outcome |-> NoOutcome]

---------------------------------------------------------------------------
(* ping *)

NoHeader == [kind |-> "absent", text |-> <<>>]
\* a header whose value is visible ASCII
Header(text) == [kind |-> "text", text |-> text]
\* a header whose value holds bytes HeaderValue::to_str rejects
OpaqueHeader == [kind |-> "opaque", text |-> <<>>]

NoPingOutcome == [tag |-> "none", err |-> "none", build |-> <<>>, version |-> <<>>]
IdlePing == [pc |-> "idle", hbuild |-> NoHeader, hversion |-> NoHeader, outcome |-> NoPingOutcome]

\* res.headers().get(name).unwrap().to_str().unwrap() does not panic
HeaderReadable(h) == h.kind = "text"

\* the closure given to map in InfluxDbClient::ping
ping_map(hbuild, hversion) ==
    IF HeaderReadable(hbuild) /\ HeaderReadable(hversion)
    THEN [tag |-> "Ok", err |-> "none", build |-> hbuild.text, version |-> hversion.text]
    ELSE [tag |-> "Panic", err |-> "none", build |-> <<>>, version |-> <<>>]

\* the map_err of InfluxDbClient::ping
PingErr == [tag |-> "Err", err |-> "ProtocolError", build |-> <<>>, version |-> <<>>]

---------------------------------------------------------------------------
(* Inputs of the dispatcher *)

Urls == {T_url, T_badurl}

W_weather ==
    add_tag(add_field(WriteQuery_new(Ts("Hours", 11), T_weather), T_t, UnsignedInteger(82)),
            T_t, Text(T_summer))
W_select == add_field(WriteQuery_new(Now, T_SELECT), T_w, Float(3, 7))
W_show == add_field(WriteQuery_new(Ts("Seconds", 0), T_weather), T_w, Text(T_SHOW))
W_nofields == add_tag(WriteQuery_new(Ts("Hours", 11), T_weather), T_t, Text(T_summer))
W_absent == add_field_opt(WriteQuery_new(Now, T_weather), T_t, None)

ReadTexts == {T_SELECT, T_SHOW, T_select, T_SELEC, T_DROP, T_xSHOWx, T_empty}
Queries ==
    {raw_read_query(t) : t \in ReadTexts}
    \cup {W_weather, W_select, W_show, W_nofields, W_absent}
Statuses == {200, 401, 403, 404, 500}
Bodies == {Bytes(B_ok), Bytes(B_error), Bytes(B_unquoted), Bytes(B_invalid), Bytes(<<>>), BrokenBody}
Headers == {NoHeader, Header(T_t), OpaqueHeader}

ConcQueries == {raw_read_query(T_SELECT), W_weather, W_nofields}
ConcStatuses == {200, 401, 500}
ConcBodies == {Bytes(B_ok), Bytes(B_error), BrokenBody}

---------------------------------------------------------------------------
(* The dispatcher as a state machine *)

\* caller: client.with_auth(username, password)
WithAuth(username, password) ==
    /\ client' = with_auth(client, username, password)
    /\ UNCHANGED <<builder, built, disp, pingst, lastop, conv>>

\* caller: client.query(&q); the synchronous part runs to the first await
Query(d, q) ==
    /\ disp[d].pc = "idle"
    /\ LET r == query_sync(client, q)
       IN  disp' = [disp EXCEPT ![d] =
                IF r.failed
                THEN [@ EXCEPT !.pc = "done", !.q = q, !.req = r.req,
                               !.outcome = Err(r.err)]
                ELSE [@ EXCEPT !.pc = "sending", !.q = q, !.req = r.req,
                               !.nsent = @ + 1]]
    /\ UNCHANGED <<builder, built, client, pingst, lastop, conv>>

\* (mutant) a transport failure sends the request again
SendFails_Retry(d) ==
    /\ disp[d].pc = "sending"
    /\ disp[d].nsent < 3
    /\ disp' = [disp EXCEPT ![d].nsent = @ + 1]
    /\ UNCHANGED <<builder, built, client, pingst, lastop, conv>>

\* transport: send() fails; map_err gives ConnectionError
SendFails(d) ==
    /\ disp[d].pc = "sending"
    /\ disp' = [disp EXCEPT ![d].pc = "done", ![d].outcome = Err("ConnectionError")]
    /\ UNCHANGED <<builder, built, client, pingst, lastop, conv>>

\* the first and_then of InfluxDbClient::query: the status decides whether the
\* body is read at all
AfterResponse(status, body) ==
    IF StatusError(status) # "none"
    THEN [pc |-> "done", outcome |-> Err(StatusError(status))]
    ELSE [pc |-> "reading", outcome |-> NoOutcome]

\* transport: the response head arrives, with `body` still to be streamed
Respond(d, status, body) ==
    /\ disp[d].pc = "sending"
    /\ LET a == AfterResponse(status, body)
       IN  disp' = [disp EXCEPT ![d].resp = [status |-> status, body |-> body],
                                ![d].pc = a.pc, ![d].outcome = a.outcome]
    /\ UNCHANGED <<builder, built, client, pingst, lastop, conv>>

\* transport: body.concat2() completes; the last two and_then run
ReadBody(d) ==
    /\ disp[d].pc = "reading"
    /\ disp' = [disp EXCEPT ![d].pc = "done",
                            ![d].outcome =
                                IF disp[d].resp.body.kind = "ioerror"
                                THEN Err(BodyReadError)
                                ELSE BodyOutcome(disp[d].resp.body.bytes)]
    /\ UNCHANGED <<builder, built, client, pingst, lastop, conv>>

\* (mutant) dropping one future tears down every pending dispatch
Cancel_All(d) ==
    /\ disp[d].pc \in {"sending", "reading"}
    /\ disp' = [e \in DOMAIN disp |->
                    IF disp[e].pc \in {"sending", "reading"}
                    THEN [disp[e] EXCEPT !.pc = "dropped"] ELSE disp[e]]
    /\ UNCHANGED <<builder, built, client, pingst, lastop, conv>>

\* caller: the future returned by query() is dropped before it completes
Cancel(d) ==
    /\ disp[d].pc \in {"sending", "reading"}
    /\ disp' = [disp EXCEPT ![d].pc = "dropped"]
    /\ UNCHANGED <<builder, built, client, pingst, lastop, conv>>

\* caller: client.ping(); a URL that does not parse fails the send
PingStart ==
    /\ pingst.pc = "idle"
    /\ pingst' =
         IF Url_parse_with_params(client.url \o T_slash_ping, <<>>).ok
         THEN [pingst EXCEPT !.pc = "sending"]
         ELSE [pingst EXCEPT !.pc = "done", !.outcome = PingErr]
    /\ UNCHANGED <<builder, built, client, disp, lastop, conv>>

\* transport: send() of the ping fails
PingSendFails ==
    /\ pingst.pc = "sending"
    /\ pingst' = [pingst EXCEPT !.pc = "done", !.outcome = PingErr]
    /\ UNCHANGED <<builder, built, client, disp, lastop, conv>>

\* transport: the ping's response arrives with the two headers given
PingResponds(hbuild, hversion) ==
    /\ pingst.pc = "sending"
    /\ pingst' = [pc |-> "done", hbuild |-> hbuild, hversion |-> hversion,
                  outcome |-> ping_map(hbuild, hversion)]
    /\ UNCHANGED <<builder, built, client, disp, lastop, conv>>

\* one caller, one dispatch and one ping through a client
Init ==
    /\ builder = WriteQuery_new(Now, <<>>)
    /\ built = NotBuilt
    /\ \E url \in Urls : client = new(url, T_test)
    /\ disp = <<IdleDispatch>>
    /\ pingst = IdlePing
    /\ lastop = NoOp
    /\ conv = NoConv

Next ==
    \/ WithAuth(T_admin, T_secret)
    \/ \E d \in DOMAIN disp, q \in Queries : Query(d, q)
    \/ \E d \in DOMAIN disp : SendFails(d)
    \/ \E d \in DOMAIN disp, st \in Statuses, b \in Bodies : Respond(d, st, b)
    \/ \E d \in DOMAIN disp : ReadBody(d)
    \/ \E d \in DOMAIN disp : Cancel(d)
    \/ PingStart
    \/ PingSendFails
    \/ \E hb \in Headers, hv \in Headers : PingResponds(hb, hv)

Spec == Init /\ [][Next]_vars

\* NumDispatch dispatches in flight at once through one shared client
InitConcurrent ==
    /\ builder = WriteQuery_new(Now, <<>>)
    /\ built = NotBuilt
    /\ \E url \in Urls, a \in BOOLEAN :
         client = IF a THEN with_auth(new(url, T_test), T_admin, T_secret)
                  ELSE new(url, T_test)
    /\ disp = [d \in 1..NumDispatch |-> IdleDispatch]
    /\ pingst = IdlePing
    /\ lastop = NoOp
    /\ conv = NoConv

NextConcurrent ==
    \/ \E d \in DOMAIN disp, q \in ConcQueries : Query(d, q)
    \/ \E d \in DOMAIN disp : SendFails(d)
    \/ \E d \in DOMAIN disp, st \in ConcStatuses, b \in ConcBodies : Respond(d, st, b)
    \/ \E d \in DOMAIN disp : ReadBody(d)
    \/ \E d \in DOMAIN disp : Cancel(d)

SpecConcurrent == InitConcurrent /\ [][NextConcurrent]_vars

---------------------------------------------------------------------------
(* Timestamp and DateTime<Utc> (src/src/query/mod.rs, feature chrono_timestamps) *)

\* the largest value of the timestamps converted
MaxStamp == 15

\* a DateTime<Utc> is the instant `millis` milliseconds and `nanos` (below
\* 1000000) nanoseconds after the Unix epoch
\* Utc.timestamp_millis(ms)
timestamp_millis(ms) == [millis |-> ms, nanos |-> 0]

\* Utc.timestamp_nanos(ns)
timestamp_nanos(ns) == [millis |-> ns \div 1000000, nanos |-> ns % 1000000]

\* DateTime::timestamp_millis
DateTime_timestamp_millis(dt) == dt.millis

\* impl Into<DateTime<Utc>> for Timestamp :: into, for the variants other
\* than Now (Now reads the clock); the values stay far below the 2^63 at
\* which try_into().unwrap() panics
Timestamp_into(ts) ==
    CASE ts.variant = "Hours" -> timestamp_millis(ts.n * 60 * 60 * 1000)
      [] ts.variant = "Minutes" -> timestamp_millis(ts.n * 60 * 1000)
      [] ts.variant = "Seconds" -> timestamp_millis(ts.n * 1000)
      [] ts.variant = "Milliseconds" -> timestamp_millis(ts.n)
      [] ts.variant = "Nanoseconds" -> timestamp_nanos(ts.n)
      [] ts.variant = "Microseconds" -> timestamp_nanos(ts.n \div 10000)

\* impl<T> From<DateTime<T>> for Timestamp :: from
Timestamp_from(dt) == Ts("Milliseconds", DateTime_timestamp_millis(dt))

\* the timestamps converted
Stamps ==
    {Ts(v, n) : v \in Variants, n \in 0..MaxStamp}
    \cup {Ts("Microseconds", 10000), Ts("Microseconds", 25000),
          Ts("Nanoseconds", 1500000), Ts("Milliseconds", 1000), Now}

\* the date-times converted, all at or after the epoch
Instants ==
    {timestamp_nanos(ns) : ns \in {0, 1, 999999, 1000000, 1500000, 2000001}}
    \cup {timestamp_millis(ms) : ms \in {1000, 86400000}}

\* the instants Utc::now() may return
Clock == {timestamp_millis(1000000000), timestamp_nanos(2000000001)}

\* caller: let dt: DateTime<Utc> = ts.into()
IntoDateTime(ts) ==
    /\ \E now \in Clock :
         conv' = [ts |-> ts,
                  dt |-> IF ts.variant = "Now" THEN now ELSE Timestamp_into(ts),
                  given |-> NoConv.given, src |-> "into"]
    /\ UNCHANGED <<builder, built, client, disp, pingst, lastop>>

\* caller: let ts: Timestamp = dt.into()
FromDateTime(dt) ==
    /\ conv' = [ts |-> Timestamp_from(dt), dt |-> NoConv.dt, given |-> dt, src |-> "from"]
    /\ UNCHANGED <<builder, built, client, disp, pingst, lastop>>

\* caller: the timestamp got from a date-time is converted back
BackToDateTime ==
    /\ conv.src = "from"
    /\ conv' = [conv EXCEPT !.dt = Timestamp_into(conv.ts), !.src = "back"]
    /\ UNCHANGED <<builder, built, client, disp, pingst, lastop>>

InitTime ==
    /\ builder = WriteQuery_new(Now, <<>>)
    /\ built = NotBuilt
    /\ client = [url |-> <<>>, database |-> <<>>,
                 auth |-> [some |-> FALSE, username |-> <<>>, password |-> <<>>]]
    /\ disp = <<>>
    /\ pingst = [pc |-> "idle"]
    /\ lastop = NoOp
    /\ conv = NoConv

NextTime ==
    \/ \E ts \in Stamps : IntoDateTime(ts)
    \/ \E dt \in Instants : FromDateTime(dt)
    \/ BackToDateTime

SpecTime == InitTime /\ [][NextTime]_vars

---------------------------------------------------------------------------
(* Claims about the builders *)

\* build() has been called on the current builder state
HasBuilt == built # NotBuilt

\* C1: every write builder whose field list is empty, whatever its
\* measurement, timestamp and tags, fails to build with InvalidQueryError and
\* yields no rendered text.
C1_EmptyFieldsFail ==
    (HasBuilt /\ builder.kind = "write" /\ builder.fields = <<>>)
        => (~built.ok /\ built.err = "InvalidQueryError" /\ built.text = <<>>)

\* a builder holding tags only has been built, and the build failed
C1_Witness ==
    /\ HasBuilt /\ ~built.ok
    /\ builder.fields = <<>> /\ Len(builder.tags) = MaxTags
    /\ builder.timestamp.variant = "Hours"

\* the grammar's tag part: ',' name '=' value for each tag from position i on
RECURSIVE GrammarTags(_, _)
GrammarTags(list, i) ==
    IF i > Len(list) THEN <<>>
    ELSE <<",">> \o list[i][1] \o <<"=">> \o list[i][2] \o GrammarTags(list, i + 1)

\* the grammar's field part: name '=' value, a ',' before all but the first
RECURSIVE GrammarFields(_, _)
GrammarFields(list, i) ==
    IF i > Len(list) THEN <<>>
    ELSE (IF i = 1 THEN <<>> ELSE <<",">>)
         \o list[i][1] \o <<"=">> \o list[i][2] \o GrammarFields(list, i + 1)

\* the value a digit string denotes, -1 when a character is no digit
RECURSIVE DecimalValue(_)
DecimalValue(ds) ==
    IF ds = <<>> THEN 0
    ELSE LET last == ds[Len(ds)]
             init == DecimalValue(SubSeq(ds, 1, Len(ds) - 1))
         IN  IF init < 0 \/ ~(\E k \in 1..10 : Digits[k] = last) THEN -1
             ELSE 10 * init + (CHOOSE k \in 1..10 : Digits[k] = last) - 1

\* `tail` is the grammar's timestamp tail for `ts`: nothing for Now, else one
\* space and the canonical decimal numeral of the value
IsTimestampTail(tail, ts) ==
    IF ts.variant = "Now" THEN tail = <<>>
    ELSE /\ Len(tail) >= 2
         /\ tail[1] = " "
         /\ DecimalValue(Tail(tail)) = ts.n
         /\ (Len(tail) > 2 => tail[2] # "0")

\* C2: every write builder with at least one field builds, and the text is
\* measurement, ',' name '=' value per tag in insertion order, one space, the
\* fields in insertion order joined by ',', then the timestamp tail (absent
\* for Now); duplicates are kept in place.
C2_RenderGrammar ==
    (HasBuilt /\ builder.kind = "write" /\ builder.fields # <<>>)
        => /\ built.ok /\ built.err = "none"
           /\ LET head == builder.measurement \o GrammarTags(builder.tags, 1)
                           \o <<" ">> \o GrammarFields(builder.fields, 1)
              IN  /\ Len(built.text) >= Len(head)
                  /\ SubSeq(built.text, 1, Len(head)) = head
                  /\ IsTimestampTail(
                        SubSeq(built.text, Len(head) + 1, Len(built.text)),
                        builder.timestamp)

\* a built builder with two tags and two fields under one key each, and a
\* timestamp that is not Now
C2_Witness ==
    /\ HasBuilt /\ built.ok
    /\ Len(builder.tags) = 2 /\ builder.tags[1][1] = builder.tags[2][1]
    /\ builder.tags[1][2] # builder.tags[2][2]
    /\ Len(builder.fields) = 2 /\ builder.fields[1][1] = builder.fields[2][1]
    /\ builder.fields[1][2] # builder.fields[2][2]
    /\ builder.timestamp = Ts("Nanoseconds", 120)

\* C11: add_field with an absent optional value leaves the builder as it
\* was; with a present value Some(v) it does exactly what add_field with v
\* does, appending one entry under the given name; so a builder that got one
\* present and one absent optional field builds like one that got the present
\* field only.
C11_OptionalField ==
    /\ [][lastop'.op = "add_field"
            => IF lastop'.o.some
               THEN /\ builder' = add_field(builder, lastop'.tag, lastop'.o.v)
                    /\ Len(builder'.fields) = Len(builder.fields) + 1
                    /\ builder'.fields[Len(builder'.fields)][1] = lastop'.tag
                    /\ SubSeq(builder'.fields, 1, Len(builder.fields)) = builder.fields
               ELSE builder' = builder]_vars
    /\ [](\A x \in FieldNames, y \in FieldNames, v \in FieldValues :
            build(add_field_opt(add_field_opt(builder, x, Some(v)), y, None))
                = build(add_field(builder, x, v)))

\* a present optional field was added, then an absent one: one entry
C11_Witness ==
    /\ lastop.op = "add_field" /\ ~lastop.o.some /\ lastop.tag = T_w
    /\ builder.fields = <<<<T_t, <<"-", "5">>>>>>

\* C12: build() on a write builder changes nothing of the builder, and a
\* build() that follows another on the same builder state returns the same
\* result.
C12_BuildIsPureRead ==
    [][built' # NotBuilt
         => /\ builder' = builder
            /\ built # NotBuilt => built' = built]_vars

\* a builder with tags and fields has been built
C12_Witness ==
    /\ HasBuilt /\ built.ok
    /\ builder.tags # <<>>
    /\ builder.timestamp.variant = "Minutes"

\* the precision token table of the wire interface
TokenOf ==
    [v \in Variants \cup {"Now"} |->
        CASE v = "Now" -> <<>>
          [] v = "Nanoseconds" -> <<"n", "s">>
          [] v = "Microseconds" -> <<"u">>
          [] v = "Milliseconds" -> <<"m", "s">>
          [] v = "Seconds" -> <<"s">>
          [] v = "Minutes" -> <<"m">>
          [] v = "Hours" -> <<"h">>]

\* the current builder with another timestamp
WithTimestamp(ts) == [builder EXCEPT !.timestamp = ts]

\* C13: the precision token is the table's token for the timestamp's
\* variant, whatever the value, tags and fields; the six tokens of the
\* variants other than Now differ from one another; and the rendered line
\* does not depend on the variant, so the token is no part of it.
C13_PrecisionToken ==
    /\ lastop.op = "get_precision"
          => lastop.token = TokenOf[builder.timestamp.variant]
    /\ \A v1 \in Variants, v2 \in Variants :
          (get_precision(WithTimestamp(Ts(v1, 0))) = get_precision(WithTimestamp(Ts(v2, 11))))
              <=> (v1 = v2)
    /\ (HasBuilt /\ built.ok /\ builder.timestamp.variant # "Now")
          => \A v \in Variants :
                build(WithTimestamp(Ts(v, builder.timestamp.n))) = built

\* get_precision was called on a built builder with tags, fields and a
\* millisecond timestamp
C13_Witness ==
    /\ lastop.op = "get_precision" /\ lastop.token = <<"m", "s">>
    /\ HasBuilt /\ built.ok
    /\ builder.tags # <<>>
    /\ builder.timestamp = Ts("Milliseconds", 11)

\* `a` is a prefix of `b`
IsPrefix(a, b) == Len(a) <= Len(b) /\ SubSeq(b, 1, Len(a)) = a

\* C19: every builder operation keeps measurement and timestamp, add_tag
\* keeps the field list and add_field the tag list, and the old entries stay
\* in place as a prefix; so a builder that builds still builds after any
\* further add_field / add_tag, and its rendered tag and field segments are
\* prefixes of the new ones.
C19_BuildableIsMonotonic ==
    [][/\ builder'.measurement = builder.measurement
       /\ builder'.timestamp = builder.timestamp
       /\ IsPrefix(builder.tags, builder'.tags)
       /\ IsPrefix(builder.fields, builder'.fields)
       /\ builder'.tags # builder.tags => builder'.fields = builder.fields
       /\ builder'.fields # builder.fields => builder'.tags = builder.tags
       /\ build(builder).ok
            => /\ build(builder').ok
               /\ IsPrefix(TagSegment(builder), TagSegment(builder'))
               /\ IsPrefix(FieldSegment(builder), FieldSegment(builder'))]_vars

\* a builder that received two fields under one key and two tags builds
C19_Witness ==
    /\ HasBuilt /\ built.ok
    /\ Len(builder.fields) = 2 /\ Len(builder.tags) = 2
    /\ builder.fields[1][1] = builder.fields[2][1]

---------------------------------------------------------------------------
(* Claims about the dispatcher *)

\* `sub` occurs somewhere in `s`
HasSub(s, sub) ==
    \E i \in 1..(Len(s) + 1), j \in 0..Len(s) : SubSeq(s, i, j) = sub

\* C3: a dispatch whose query fails to build ends at once with
\* InvalidQueryError; no URL is constructed and no request is sent.
C3_BuildFailureShortCircuits ==
    \A d \in DOMAIN disp :
        (disp[d].pc # "idle" /\ ~build(disp[d].q).ok)
            => /\ disp[d].pc = "done"
               /\ disp[d].outcome = Err("InvalidQueryError")
               /\ disp[d].req = NoRequest
               /\ disp[d].nsent = 0
               /\ disp[d].resp = NoResponse

\* a write query with tags only was dispatched through a client whose URL
\* is well formed, and the dispatch has ended
C3_Witness ==
    /\ client.url = T_url
    /\ disp[1].pc = "done" /\ disp[1].q = W_nofields
    /\ disp[1].outcome.err = "InvalidQueryError"

\* C4: of the dispatches that reach the send step, a read query goes out
\* with GET exactly when its text contains "SELECT" or "SHOW" (case
\* sensitive) and with POST otherwise; a write query always goes out with POST.
C4_VerbSelection ==
    \A d \in DOMAIN disp :
        disp[d].nsent >= 1
            => IF disp[d].q.kind = "read"
               THEN LET text == build(disp[d].q).text
                        sniffed == HasSub(text, T_SELECT) \/ HasSub(text, T_SHOW)
                    IN  disp[d].req.method = (IF sniffed THEN "GET" ELSE "POST")
               ELSE disp[d].req.method = "POST"

\* a write query whose measurement is SELECT has been sent, with POST
C4_Witness ==
    /\ disp[1].q = W_select /\ disp[1].nsent = 1
    /\ HasSub(disp[1].req.body, T_SELECT)
    /\ disp[1].req.method = "POST"

\* the dispatch has ended after a response whose body is valid text holding
\* the error marker
MarkerBodyDone(d) ==
    /\ disp[d].pc = "done"
    /\ disp[d].resp.status # 0
    /\ disp[d].resp.body.kind = "bytes"
    /\ from_utf8_ok(disp[d].resp.body.bytes)
    /\ HasSub(disp[d].resp.body.bytes, T_error_marker)

\* C5 (as claimed): a response body containing "error" in quotes yields a
\* Database error whatever the status code, 401 and 403 included.
C5_Original ==
    \A d \in DOMAIN disp :
        MarkerBodyDone(d) => disp[d].outcome.err = "DatabaseError"

\* C5 (amended): a response whose status is neither 401 nor 403 and whose
\* body is read as valid text containing "error" in quotes yields a Database
\* error wrapping that text, whatever the status code; with status 401 or
\* 403 the body is not inspected and the outcome is no Database error.
C5_MarkerYieldsDatabaseError ==
    \A d \in DOMAIN disp :
        MarkerBodyDone(d)
            => IF disp[d].resp.status \in {401, 403}
               THEN disp[d].outcome.err \in {"AuthorizationError", "AuthenticationError"}
               ELSE /\ disp[d].outcome.tag = "Err"
                    /\ disp[d].outcome.err = "DatabaseError"
                    /\ HasSub(disp[d].outcome.text, disp[d].resp.body.bytes)

\* a 500 response with the error marker in its body ended as a Database error
C5_Witness ==
    /\ MarkerBodyDone(1)
    /\ disp[1].resp.status = 500
    /\ disp[1].outcome.err = "DatabaseError"

\* what a body alone allows as the outcome: the text itself when it is valid
\* text without the marker, an error otherwise
BodyDecides(body, outcome) ==
    IF body.kind = "bytes" /\ from_utf8_ok(body.bytes)
       /\ ~HasSub(body.bytes, T_error_marker)
    THEN outcome = Ok(body.bytes)
    ELSE outcome.tag = "Err"
         /\ outcome.err \notin {"AuthorizationError", "AuthenticationError"}

\* C6: once a response has come, status 401 ends the dispatch with the
\* Authorization error and 403 with the Authentication error; any other
\* status goes on to the body, and the outcome is then decided by the body
\* alone: the body text is the success value when it is valid text without
\* the marker.
C6_StatusMapping ==
    \A d \in DOMAIN disp :
        disp[d].resp.status # 0
            => CASE disp[d].resp.status = 401 ->
                        disp[d].pc = "done" /\ disp[d].outcome = Err("AuthorizationError")
                 [] disp[d].resp.status = 403 ->
                        disp[d].pc = "done" /\ disp[d].outcome = Err("AuthenticationError")
                 [] OTHER ->
                        /\ disp[d].pc \in {"reading", "done", "dropped"}
                        /\ disp[d].pc = "done"
                              => BodyDecides(disp[d].resp.body, disp[d].outcome)
                        /\ disp[d].pc # "done" => disp[d].outcome = NoOutcome

\* a 404 response with a plain body ended in success with that body
C6_Witness ==
    /\ disp[1].pc = "done"
    /\ disp[1].resp.status = 404
    /\ disp[1].resp.body = Bytes(B_ok)
    /\ disp[1].outcome = Ok(B_ok)

\* C7 (as claimed): when the request URL cannot be constructed, a dispatch
\* of either kind whose query builds ends with UrlConstructionError and
\* sends nothing.
C7_UrlErrorBothKinds ==
    \A d \in DOMAIN disp :
        (disp[d].pc # "idle" /\ build(disp[d].q).ok /\ client.url = T_badurl)
            => /\ disp[d].pc = "done"
               /\ disp[d].outcome.err = "UrlConstructionError"
               /\ disp[d].nsent = 0

\* C8 (as claimed): ping never panics; a response lacking one of the two
\* headers ends the ping with the Protocol error, and one with both ends it
\* with the pair (build, version).
C8_PingNeverPanics ==
    pingst.pc = "done"
        => /\ pingst.outcome.tag # "Panic"
           /\ (pingst.hbuild.kind = "absent" \/ pingst.hversion.kind = "absent")
                => pingst.outcome = PingErr
           /\ (pingst.hbuild.kind = "text" /\ pingst.hversion.kind = "text")
                => /\ pingst.outcome.tag = "Ok"
                   /\ pingst.outcome.build = pingst.hbuild.text
                   /\ pingst.outcome.version = pingst.hversion.text

Taxonomy ==
    {"InvalidQueryError", "UrlConstructionError", "ConnectionError",
     "AuthenticationError", "AuthorizationError", "DeserializationError",
     "DatabaseError", "ProtocolError"}

\* the dispatch is in a consistent final or non-final state: one outcome
\* exactly when done, at most one request, success only for a clean body
OneOutcome(d) ==
    /\ disp[d].nsent <= 1
    /\ disp[d].pc = "done" <=> disp[d].outcome.tag \in {"Ok", "Err"}
    /\ disp[d].pc # "done" => disp[d].outcome = NoOutcome
    /\ disp[d].outcome.tag = "Err" => disp[d].outcome.err \in Taxonomy
    /\ disp[d].outcome.tag = "Ok"
          => /\ disp[d].nsent = 1
             /\ disp[d].resp.status \notin {0, 401, 403}
             /\ disp[d].resp.body.kind = "bytes"
             /\ from_utf8_ok(disp[d].resp.body.bytes)
             /\ ~HasSub(disp[d].resp.body.bytes, T_error_marker)
             /\ disp[d].outcome.text = disp[d].resp.body.bytes

\* a step never sends again and never changes a dispatch that has ended
NoRetry(d) ==
    /\ disp[d].pc # "idle" => disp'[d].nsent = disp[d].nsent
    /\ disp[d].pc \in {"done", "dropped"} => disp'[d] = disp[d]

\* C9: every dispatch that ends has exactly one outcome, the body text or
\* one error of the taxonomy; it sends at most one request, nothing is sent
\* again after a failure, and no failure becomes a success.
C9_OneOutcomeNoRetry ==
    /\ [](\A d \in DOMAIN disp : OneOutcome(d))
    /\ [][\A d \in DOMAIN disp : NoRetry(d)]_vars

\* a dispatch ended with ConnectionError after its single send
C9_Witness ==
    /\ disp[1].pc = "done"
    /\ disp[1].outcome = Err("ConnectionError")
    /\ disp[1].nsent = 1

\* two ended dispatches of the same query with the same response (or the
\* same lack of one) have the same outcome
OwnInputsDecide ==
    \A d, e \in DOMAIN disp :
        (disp[d].pc = "done" /\ disp[e].pc = "done"
         /\ disp[d].q = disp[e].q /\ disp[d].resp = disp[e].resp)
            => disp[d].outcome = disp[e].outcome

\* a step of one dispatch, a cancellation included, leaves every other
\* dispatch as it was
StepsAreLocal ==
    \A d, e \in DOMAIN disp :
        (d # e /\ disp'[d] # disp[d]) => disp'[e] = disp[e]

\* a dispatch in flight can always take its next step, whatever the others
\* have done
InFlightCanProceed ==
    \A d \in DOMAIN disp :
        /\ disp[d].pc = "sending" => ENABLED SendFails(d)
        /\ disp[d].pc = "reading" => ENABLED ReadBody(d)

\* C10: concurrent dispatches through one client are independent under every
\* interleaving: an outcome depends on the dispatch's own query and response
\* only, and a step of one dispatch, its cancellation included, changes no
\* other dispatch and leaves the others able to complete.
C10_DispatchesIndependent ==
    /\ [](OwnInputsDecide /\ InFlightCanProceed)
    /\ [][StepsAreLocal]_vars

\* the first dispatch was cancelled while in flight, the second, answered
\* with the same kind of response the first had received, completed
C10_Witness ==
    /\ disp[1].pc = "dropped" /\ disp[1].resp.status = 200
    /\ disp[2].pc = "done" /\ disp[2].outcome = Ok(B_ok)
    /\ disp[1].q = disp[2].q

\* the names of the parameters of a URL
ParamNames(url) == {url.pairs[i][1] : i \in 1..Len(url.pairs)}

\* db, then u and p when the client holds credentials
ExpectedBaseParams ==
    IF client.auth.some
    THEN <<<<T_db, client.database>>, <<T_u, client.auth.username>>,
           <<T_p, client.auth.password>>>>
    ELSE <<<<T_db, client.database>>>>

\* the request a dispatch of query q must send through the present client
ShapedByKind(q, req) ==
    IF q.kind = "read"
    THEN /\ req.url.base = client.url \o T_slash_query
         /\ req.url.pairs = ExpectedBaseParams \o <<<<T_q, build(q).text>>>>
         /\ ~req.hasBody /\ req.body = <<>>
         /\ T_precision \notin ParamNames(req.url)
    ELSE /\ req.url.base = client.url \o T_slash_write
         /\ req.url.pairs
              = ExpectedBaseParams \o <<<<T_precision, TokenOf[q.timestamp.variant]>>>>
         /\ req.hasBody /\ req.body = build(q).text
         /\ T_q \notin ParamNames(req.url)

\* C14: the request a dispatch sends is shaped by the query kind: a read
\* query goes to <base>/query with db, then u and p exactly when the client has
\* credentials, then q = the rendered text, without body and without
\* precision; a write query goes to <base>/write with db, then u and p
\* exactly when the client has credentials, then precision = the builder's
\* token, with the rendered line as body and without q.
C14_RequestShape ==
    [][\A d \in DOMAIN disp :
          (disp[d].pc = "idle" /\ disp'[d].pc = "sending")
              => ShapedByKind(disp'[d].q, disp'[d].req)]_vars

\* an authenticated client has sent the tagged weather point
C14_Witness ==
    /\ disp[1].pc = "sending" /\ disp[1].q = W_weather
    /\ client.auth.some
    /\ Len(disp[1].req.url.pairs) = 4

\* the stored request carries credentials exactly when the client has them
SameCredentials(req) == (T_u \in ParamNames(req.url)) <=> client.auth.some

\* C15: a client starts with the url and database given and without
\* credentials; with_auth keeps url and database and stores exactly the pair
\* given; no dispatch or ping step, successful or not, changes the client, so
\* dispatching the same query again through it builds the same request.
C15_ClientImmutable ==
    /\ [](/\ client.url \in Urls /\ client.database = T_test
          /\ client.auth \in {NoAuth, [some |-> TRUE, username |-> T_admin,
                                                      password |-> T_secret]})
    /\ [][/\ client' # client
             => /\ client'.url = client.url /\ client'.database = client.database
                /\ client.auth = NoAuth
                /\ client'.auth = [some |-> TRUE, username |-> T_admin,
                                                  password |-> T_secret]
                /\ disp' = disp /\ pingst' = pingst
          /\ (disp' # disp \/ pingst' # pingst) => client' = client]_vars
    /\ [](\A d \in DOMAIN disp :
            (disp[d].req # NoRequest /\ SameCredentials(disp[d].req))
                => query_sync(client, disp[d].q).req = disp[d].req)

\* a dispatch and a ping have ended through a client that was given
\* credentials before the dispatch
C15_Witness ==
    /\ client = with_auth(new(T_url, T_test), T_admin, T_secret)
    /\ disp[1].pc = "done" /\ disp[1].outcome.tag = "Err"
    /\ T_u \in ParamNames(disp[1].req.url)
    /\ pingst.pc = "done"

\* C16: build() on a read query succeeds for every raw text, the empty one
\* and those that are no valid query included, and returns the text as it
\* is; so no dispatch of a read query ends in InvalidQuery, and the q
\* parameter sent is the raw text.
C16_ReadBuildNeverFails ==
    /\ \A t \in ReadTexts \cup {B_invalid, B_error} :
          build(raw_read_query(t)) = BuildOk(t)
    /\ \A d \in DOMAIN disp :
          (disp[d].pc # "idle" /\ disp[d].q.kind = "read")
              => /\ disp[d].outcome.err # "InvalidQueryError"
                 /\ disp[d].req # NoRequest
                      => disp[d].req.url.pairs[Len(disp[d].req.url.pairs)]
                            = <<T_q, disp[d].q.raw>>

\* the read query with the empty text was sent and answered
C16_Witness ==
    /\ disp[1].q = raw_read_query(T_empty)
    /\ disp[1].pc = "done" /\ disp[1].outcome = Ok(B_ok)

\* the dispatch has ended after a response that was neither 401 nor 403
BodyWasRead(d) ==
    /\ disp[d].pc = "done"
    /\ disp[d].resp.status \notin {0, 401, 403}

\* C17, as stated: after a response that is neither 401 nor 403, a body
\* whose stream fails before its end and a body whose bytes are not UTF-8
\* both end the dispatch with the Deserialization error.
C17_Original ==
    \A d \in DOMAIN disp :
        (BodyWasRead(d)
         /\ (disp[d].resp.body.kind = "ioerror" \/ ~from_utf8_ok(disp[d].resp.body.bytes)))
            => disp[d].outcome = Err("DeserializationError")

\* C17, amended: after a response that is neither 401 nor 403, bytes that
\* are not UTF-8 end the dispatch with the Deserialization error, a body
\* whose stream fails before its end ends it with the Protocol error, and
\* no body read to its end as UTF-8 text ends it with either.
C17_BodyFailure ==
    \A d \in DOMAIN disp :
        BodyWasRead(d)
            => IF disp[d].resp.body.kind = "ioerror"
               THEN disp[d].outcome = Err("ProtocolError")
               ELSE IF ~from_utf8_ok(disp[d].resp.body.bytes)
               THEN disp[d].outcome = Err("DeserializationError")
               ELSE disp[d].outcome.err \notin {"ProtocolError", "DeserializationError"}

\* a 500 response whose body stream failed has ended the dispatch
C17_Witness ==
    /\ BodyWasRead(1)
    /\ disp[1].resp = [status |-> 500, body |-> BrokenBody]
    /\ disp[1].outcome = Err("ProtocolError")

\* the instant n units of the variant's resolution after the epoch
UnitsAfterEpoch(ts) ==
    CASE ts.variant = "Hours" -> timestamp_millis(ts.n * 3600000)
      [] ts.variant = "Minutes" -> timestamp_millis(ts.n * 60000)
      [] ts.variant = "Seconds" -> timestamp_millis(ts.n * 1000)
      [] ts.variant = "Milliseconds" -> timestamp_millis(ts.n)
      [] ts.variant = "Microseconds" -> timestamp_nanos(ts.n * 1000)
      [] ts.variant = "Nanoseconds" -> timestamp_nanos(ts.n)

\* C18: a timestamp of a variant other than Now with value n converts to the
\* instant n units of the variant's resolution after the epoch (Hours
\* n*3600000 ms, Minutes n*60000 ms, Seconds n*1000 ms, Milliseconds n ms,
\* Microseconds n*1000 ns, Nanoseconds n ns); a date-time at or after the
\* epoch converts to Milliseconds(m) with m its millisecond count, and that
\* converts back to the same instant cut to whole milliseconds.
C18_TimestampConversion ==
    /\ (conv.src = "into" /\ conv.ts.variant # "Now")
          => conv.dt = UnitsAfterEpoch(conv.ts)
    /\ conv.src \in {"from", "back"}
          => conv.ts = Ts("Milliseconds", conv.given.millis)
    /\ conv.src = "back"
          => conv.dt = [millis |-> conv.given.millis, nanos |-> 0]

=============================================================================
